---- MODULE Spec2Model ----
(***************************************************************************)
(* PicMenu (astrbot_plugin_picmenu): the query resolver of main.py, the    *)
(* derived views of models.py and the request handlers of main.py with     *)
(* their image cache.                                                      *)
(*                                                                         *)
(* Strings are tuples of one-character strings, so that str.lower(),       *)
(* str.isdigit() and int() are computed and not assumed.  The character    *)
(* "sup2" stands for U+00B2 (SUPERSCRIPT TWO): str.isdigit() accepts it,   *)
(* int() rejects it with ValueError.                                       *)
(*                                                                         *)
(* fuzz.partial_ratio and lazy_pinyin are library calls: their results are *)
(* inputs (one row of scores per candidate), constrained by what the       *)
(* library guarantees (equal strings score 100, an empty string scores 0). *)
(***************************************************************************)
EXTENDS Integers, Sequences, FiniteSets, TLC

VARIABLES cfg, cache, now, req, inp, outp

vars == <<cfg, cache, now, req, inp, outp>>

(***************************************************************************)
(* Bounds                                                                  *)
(***************************************************************************)
MaxCand == 2

MaxTime == 3

CacheExpire == 1

MaxItems == 21

MaxText == 4

(***************************************************************************)
(* Strings                                                                 *)
(***************************************************************************)
LowerChar(c) ==
    CASE c = "A" -> "a"
      [] c = "B" -> "b"
      [] OTHER -> c

Lower(s) == [i \in 1..Len(s) |-> LowerChar(s[i])]

DecimalChars == {"0", "1", "2", "3"}

DigitChars == DecimalChars \cup {"sup2"}

IsDigit(s) == Len(s) > 0 /\ \A i \in 1..Len(s) : s[i] \in DigitChars

DigitVal(c) ==
    CASE c = "0" -> 0
      [] c = "1" -> 1
      [] c = "2" -> 2
      [] OTHER -> 3

IntRaises(s) == \E i \in 1..Len(s) : s[i] \notin DecimalChars

RECURSIVE ParseInt(_)
ParseInt(s) ==
    IF Len(s) = 0 THEN 0
    ELSE 10 * ParseInt(SubSeq(s, 1, Len(s) - 1)) + DigitVal(s[Len(s)])

(***************************************************************************)
(* Fused scores.  Scores are integers 0..100; a fused score is kept in     *)
(* tenths, so that 0.7 * 85 = 59.5 is 595.  The only product d * 0.7 or    *)
(* d * 0.8 (d in 0..100) that IEEE doubles do not give exactly enough is   *)
(* 90 * 0.7 = 62.99999999999999, which lies below 63: it is 629 here.      *)
(***************************************************************************)
Max2(a, b) == IF a >= b THEN a ELSE b

Mul07(d) == IF d = 90 THEN 629 ELSE 7 * d

Mul08(d) == 8 * d

PluginFinalScore(c, s, pinyinOn) ==
    LET name_score == s.ns
        pinyin_score == IF pinyinOn THEN s.ps ELSE 0
        desc_score == IF c.desc THEN s.ds ELSE 0
    IN  Max2(Max2(10 * name_score, 10 * pinyin_score), Mul07(desc_score))

CommandFinalScore(c, s) ==
    LET name_score == s.ns
        desc_score == IF c.desc THEN s.ds ELSE 0
    IN  Max2(10 * name_score, Mul08(desc_score))

FinalScore(kind, c, s, pinyinOn) ==
    IF kind = "plugin" THEN PluginFinalScore(c, s, pinyinOn)
    ELSE CommandFinalScore(c, s)

PassesThreshold_strict(final_score, threshold) == final_score > 10 * threshold

PassesThreshold(final_score, threshold) == final_score >= 10 * threshold

IntScore_rounded(final_score) == (final_score + 5) \div 10

IntScore(final_score) == final_score \div 10

(***************************************************************************)
(* results.sort(key=lambda x: x[1], reverse=True): a stable sort, equal    *)
(* scores keep their order of insertion.                                   *)
(***************************************************************************)
StaysBefore_unstable(a, e) == a.score > e.score

StaysBefore(a, e) == a.score >= e.score

RECURSIVE InsertDesc(_, _)
InsertDesc(sorted, e) ==
    IF sorted = <<>> THEN <<e>>
    ELSE IF StaysBefore(Head(sorted), e)
         THEN <<Head(sorted)>> \o InsertDesc(Tail(sorted), e)
         ELSE <<e>> \o sorted

RECURSIVE SortResults(_)
SortResults(s) ==
    IF s = <<>> THEN <<>>
    ELSE InsertDesc(SortResults(SubSeq(s, 1, Len(s) - 1)), s[Len(s)])

Indices(s) == [i \in 1..Len(s) |-> i]

(* fuzzy_search_plugins / fuzzy_search_commands: a list of (candidate,     *)
(* int score), the candidate given by its position in the list passed in.  *)
FuzzySearch(kind, query, cands, sc, pinyinOn, threshold) ==
    IF query = <<>> \/ cands = <<>> THEN <<>>
    ELSE LET passing == SelectSeq(Indices(cands),
                 LAMBDA i : PassesThreshold(
                     FinalScore(kind, cands[i], sc[i], pinyinOn), threshold))
             results == [k \in 1..Len(passing) |->
                 [idx |-> passing[k],
                  score |-> IntScore(FinalScore(kind, cands[passing[k]],
                                                sc[passing[k]], pinyinOn))]]
         IN  SortResults(results)

(***************************************************************************)
(* get_plugin_by_query / get_command_by_query                              *)
(***************************************************************************)
Found(i) == [tag |-> "found", idx |-> i]

NotFound == [tag |-> "none", idx |-> 0]

Raised == [tag |-> "raise", idx |-> 0]

QueryIndex_offbyone(query) == ParseInt(query)

QueryIndex(query) == ParseInt(query) - 1

ExactMatch_casesensitive(query, cands) ==
    LET hits == {i \in 1..Len(cands) : cands[i].name = query}
    IN  IF hits = {} THEN 0 ELSE CHOOSE i \in hits : \A j \in hits : i <= j

ExactMatch(query, cands) ==
    LET hits == {i \in 1..Len(cands) : Lower(cands[i].name) = Lower(query)}
    IN  IF hits = {} THEN 0 ELSE CHOOSE i \in hits : \A j \in hits : i <= j

GetByQuery_cacheAware(kind, query, cands, sc, pinyinOn, threshold) ==
    IF cache # {} THEN NotFound
    ELSE IF IsDigit(query) /\ IntRaises(query) THEN Raised
    ELSE IF IsDigit(query) /\ 0 <= QueryIndex(query)
                           /\ QueryIndex(query) < Len(cands)
         THEN Found(QueryIndex(query) + 1)
    ELSE IF ExactMatch(query, cands) # 0 THEN Found(ExactMatch(query, cands))
    ELSE NotFound

GetByQuery(kind, query, cands, sc, pinyinOn, threshold) ==
    IF IsDigit(query) /\ IntRaises(query) THEN Raised
    ELSE IF IsDigit(query) /\ 0 <= QueryIndex(query)
                           /\ QueryIndex(query) < Len(cands)
         THEN Found(QueryIndex(query) + 1)
    ELSE IF ExactMatch(query, cands) # 0 THEN Found(ExactMatch(query, cands))
    ELSE LET results == FuzzySearch(kind, query, cands, sc, pinyinOn, threshold)
         IN  IF results # <<>> THEN Found(results[1].idx) ELSE NotFound

(***************************************************************************)
(* Configuration (main.py __init__) and the derived views of models.py     *)
(***************************************************************************)
DefaultThreshold == 60

Config(hiddenForAdmins, cacheOn, pinyin) ==
    [admin_only_hidden |-> hiddenForAdmins,
     cache_enabled |-> cacheOn,
     enable_pinyin |-> pinyin,
     fuzzy_threshold |-> DefaultThreshold,
     theme |-> "light"]

(* get_pinyin_string: "" when pinyin search is off; lazy_pinyin keeps the  *)
(* characters it cannot transliterate, so only "" gives "".                *)
QueryPinyinNonEmpty(c, query) == c.enable_pinyin /\ Lower(query) # <<>>

PinyinOn(c, query) == c.enable_pinyin /\ QueryPinyinNonEmpty(c, query)

VisiblePlugins_ignoreFlag(plugins, show_hidden) ==
    SelectSeq(plugins, LAMBDA p : ~p.hidden)

VisiblePlugins(plugins, show_hidden) ==
    IF show_hidden THEN plugins
    ELSE SelectSeq(plugins, LAMBDA p : ~p.hidden)

(***************************************************************************)
(* Inputs of the pure functions: a query, a candidate list and the rows of *)
(* library scores of the query against each candidate.                     *)
(***************************************************************************)
Names == {<<"B">>, <<"2">>}

Queries == {<<>>, <<"0">>, <<"1">>, <<"2">>, <<"b">>, <<"z">>, <<"sup2">>}

ScoreRows ==
    { [desc |-> FALSE, ns |-> 0,   ps |-> 0,  ds |-> 0],
      [desc |-> FALSE, ns |-> 60,  ps |-> 0,  ds |-> 0],
      [desc |-> FALSE, ns |-> 100, ps |-> 0,  ds |-> 0],
      [desc |-> FALSE, ns |-> 0,   ps |-> 61, ds |-> 0],
      [desc |-> TRUE,  ns |-> 0,   ps |-> 0,  ds |-> 75],
      [desc |-> TRUE,  ns |-> 0,   ps |-> 0,  ds |-> 85],
      [desc |-> TRUE,  ns |-> 0,   ps |-> 0,  ds |-> 86],
      [desc |-> TRUE,  ns |-> 0,   ps |-> 0,  ds |-> 90] }

Profiles == [name : Names, row : ScoreRows, hidden : BOOLEAN]

(* What the library guarantees of its scores: partial_ratio is a function  *)
(* of the two lower-cased strings, 100 on equal strings, 0 on "".          *)
LibraryScores(query, cands, sc) ==
    /\ \A i \in 1..Len(cands) :
          /\ query = <<>> => sc[i].ns = 0 /\ sc[i].ps = 0 /\ sc[i].ds = 0
          /\ (query # <<>> /\ Lower(cands[i].name) = Lower(query)) =>
                sc[i].ns = 100
    /\ \A i, j \in 1..Len(cands) :
          Lower(cands[i].name) = Lower(cands[j].name) =>
              /\ sc[i].ns = sc[j].ns
              /\ sc[i].ps = sc[j].ps

ProfileLists == UNION { [1..n -> Profiles] : n \in 0..MaxCand }

CandsOf(profs) ==
    [i \in 1..Len(profs) |->
        [name |-> profs[i].name, desc |-> profs[i].row.desc,
         hidden |-> profs[i].hidden]]

ScoresOf(profs) ==
    [i \in 1..Len(profs) |->
        [ns |-> profs[i].row.ns, ps |-> profs[i].row.ps, ds |-> profs[i].row.ds]]

NoInput == [query |-> <<>>, cands |-> <<>>, sc |-> <<>>, show_hidden |-> FALSE]

NoOutput == [op |-> "none", result |-> NotFound, list |-> <<>>]

NoRequest == [pc |-> "idle"]

InitResolve ==
    /\ cfg \in {Config(TRUE, TRUE, py) : py \in BOOLEAN}
    /\ cache = {}
    /\ now = 0
    /\ req = NoRequest
    /\ \E query \in Queries, profs \in ProfileLists, sh \in BOOLEAN :
          /\ LibraryScores(query, CandsOf(profs), ScoresOf(profs))
          /\ inp = [query |-> query, cands |-> CandsOf(profs),
                    sc |-> ScoresOf(profs), show_hidden |-> sh]
    /\ outp = NoOutput

CallGetPluginByQuery ==
    /\ outp.op = "none"
    /\ outp' = [op |-> "get_plugin_by_query",
                result |-> GetByQuery("plugin", inp.query, inp.cands, inp.sc,
                                      PinyinOn(cfg, inp.query), cfg.fuzzy_threshold),
                list |-> <<>>]
    /\ UNCHANGED <<cfg, cache, now, req, inp>>

CallGetCommandByQuery ==
    /\ outp.op = "none"
    /\ outp' = [op |-> "get_command_by_query",
                result |-> GetByQuery("command", inp.query, inp.cands, inp.sc,
                                      FALSE, cfg.fuzzy_threshold),
                list |-> <<>>]
    /\ UNCHANGED <<cfg, cache, now, req, inp>>

CallFuzzySearchPlugins ==
    /\ outp.op = "none"
    /\ outp' = [op |-> "fuzzy_search_plugins", result |-> NotFound,
                list |-> FuzzySearch("plugin", inp.query, inp.cands, inp.sc,
                                     PinyinOn(cfg, inp.query), cfg.fuzzy_threshold)]
    /\ UNCHANGED <<cfg, cache, now, req, inp>>

CallFuzzySearchCommands ==
    /\ outp.op = "none"
    /\ outp' = [op |-> "fuzzy_search_commands", result |-> NotFound,
                list |-> FuzzySearch("command", inp.query, inp.cands, inp.sc,
                                     FALSE, cfg.fuzzy_threshold)]
    /\ UNCHANGED <<cfg, cache, now, req, inp>>

CallVisiblePlugins ==
    /\ outp.op = "none"
    /\ outp' = [op |-> "visible_plugins", result |-> NotFound,
                list |-> VisiblePlugins(inp.cands, inp.show_hidden)]
    /\ UNCHANGED <<cfg, cache, now, req, inp>>

NextResolve ==
    \/ CallGetPluginByQuery
    \/ CallGetCommandByQuery
    \/ CallFuzzySearchPlugins
    \/ CallFuzzySearchCommands
    \/ CallVisiblePlugins

SpecResolve == InitResolve /\ [][NextResolve]_vars

(***************************************************************************)
(* Claims about the resolver and the derived views, under SpecResolve.     *)
(* The statements below are written from the claims: the fused score of a  *)
(* claim is the exact product, in tenths.                                  *)
(***************************************************************************)
ByQueryOps == {"get_plugin_by_query", "get_command_by_query"}

FuzzyOps == {"fuzzy_search_plugins", "fuzzy_search_commands"}

OnPlugins == outp.op \in {"get_plugin_by_query", "fuzzy_search_plugins"}

NumCands == Len(inp.cands)

IsDecimal(q) == Len(q) > 0 /\ \A i \in 1..Len(q) : q[i] \in DecimalChars

InRangeIndex == IsDecimal(inp.query) /\ 1 <= ParseInt(inp.query)
                                     /\ ParseInt(inp.query) <= NumCands

(* The index step is passed: the query is no digit string, or it parses to *)
(* a number that is 0 or greater than the number of candidates.            *)
IndexFallsThrough ==
    \/ ~IsDigit(inp.query)
    \/ IsDecimal(inp.query) /\ ~InRangeIndex

ExactHits == {i \in 1..NumCands : Lower(inp.cands[i].name) = Lower(inp.query)}

PhoneticOf(i) ==
    IF OnPlugins /\ cfg.enable_pinyin /\ inp.query # <<>> THEN inp.sc[i].ps ELSE 0

DescriptionOf(i) == IF inp.cands[i].desc THEN inp.sc[i].ds ELSE 0

ExactFused(i) ==
    IF OnPlugins
    THEN Max2(Max2(10 * inp.sc[i].ns, 10 * PhoneticOf(i)), 7 * DescriptionOf(i))
    ELSE Max2(10 * inp.sc[i].ns, 8 * DescriptionOf(i))

FloatFused(i) ==
    IF OnPlugins
    THEN Max2(Max2(10 * inp.sc[i].ns, 10 * PhoneticOf(i)), Mul07(DescriptionOf(i)))
    ELSE Max2(10 * inp.sc[i].ns, Mul08(DescriptionOf(i)))

Truncated(i) == FloatFused(i) \div 10

RoundedHalfUp(i) == (ExactFused(i) + 5) \div 10

Reaching == {i \in 1..NumCands : ExactFused(i) >= 10 * cfg.fuzzy_threshold}

ReachingFloat == {i \in 1..NumCands : FloatFused(i) >= 10 * cfg.fuzzy_threshold}

ListedIdx == {outp.list[k].idx : k \in 1..Len(outp.list)}

(* C1: a query that parses as n with 1 <= n <= number of candidates gives  *)
(* the n-th candidate of the list, whatever the names and scores; with     *)
(* n = 0 or n > number of candidates the lookup does not fail but gives    *)
(* the exact-name match if there is one, else a fuzzy match or none.       *)
C1_IndexLookup ==
    (outp.op \in ByQueryOps /\ IsDecimal(inp.query)) =>
        /\ InRangeIndex => outp.result = Found(ParseInt(inp.query))
        /\ ~InRangeIndex =>
              /\ outp.result.tag # "raise"
              /\ ExactHits # {} =>
                    /\ outp.result.tag = "found"
                    /\ outp.result.idx \in ExactHits
              /\ (ExactHits = {} /\ outp.result.tag = "found") =>
                    outp.result.idx \in ReachingFloat
              /\ (ExactHits = {} /\ outp.result.tag = "none") => ReachingFloat = {}

C1_Witness ==
    /\ outp.op = "get_plugin_by_query"
    /\ inp.query = <<"2">>
    /\ NumCands = 2
    /\ inp.cands[1].name = <<"2">>
    /\ inp.sc[2].ns = 0
    /\ outp.result = Found(2)

(* C2: when the index step is passed and some candidate's name equals the  *)
(* query case-insensitively, the first such candidate is returned, also    *)
(* when the fuzzy ranking would put another candidate first.               *)
C2_ExactBeforeFuzzy ==
    (outp.op \in ByQueryOps /\ IndexFallsThrough /\ ExactHits # {}) =>
        /\ outp.result.tag = "found"
        /\ outp.result.idx \in ExactHits
        /\ \A j \in ExactHits : outp.result.idx <= j

C2_Witness ==
    /\ outp.op = "get_plugin_by_query"
    /\ inp.query = <<"b">>
    /\ NumCands = 2
    /\ inp.cands[1].name = <<"2">>
    /\ inp.cands[2].name = <<"B">>
    /\ Truncated(1) = 100
    /\ Truncated(2) = 100
    /\ outp.result = Found(2)

C4_RoundedFirst ==
    (outp.op \in FuzzyOps /\ inp.query # <<>>) =>
        /\ \A i \in 1..NumCands :
              i \in ListedIdx <=> RoundedHalfUp(i) >= cfg.fuzzy_threshold
        /\ \A k \in 1..Len(outp.list) :
              outp.list[k].score = RoundedHalfUp(outp.list[k].idx)

(* C4 as amended: the threshold test is made on the unrounded fused score; *)
(* a listed score is the fused score truncated to an integer, and the list *)
(* is in descending order of that integer.                                 *)
C4_TruncatedAfter ==
    (outp.op \in FuzzyOps /\ inp.query # <<>>) =>
        /\ \A i \in 1..NumCands :
              i \in ListedIdx <=> FloatFused(i) >= 10 * cfg.fuzzy_threshold
        /\ \A k \in 1..Len(outp.list) :
              outp.list[k].score = Truncated(outp.list[k].idx)
        /\ \A k \in 1..Len(outp.list) : \A l \in 1..Len(outp.list) :
              k < l => outp.list[k].score >= outp.list[l].score

C4_Witness ==
    /\ outp.op = "fuzzy_search_plugins"
    /\ NumCands = 2
    /\ ExactFused(1) = 595
    /\ ExactFused(2) = 602
    /\ ListedIdx = {2}
    /\ outp.list[1].score = 60

(* C5: candidates of equal integer score are listed in the order of the    *)
(* candidate list, and past the index and exact steps the lookup returns   *)
(* the first candidate of the list among those of the highest score.       *)
C5_StableTies ==
    /\ outp.op \in FuzzyOps =>
          \A k \in 1..Len(outp.list) : \A l \in 1..Len(outp.list) :
              (k < l /\ outp.list[k].score = outp.list[l].score)
                  => outp.list[k].idx < outp.list[l].idx
    /\ (outp.op \in ByQueryOps /\ IndexFallsThrough /\ ExactHits = {}
            /\ outp.result.tag = "found") =>
          \A j \in ReachingFloat :
              Truncated(j) = Truncated(outp.result.idx) => outp.result.idx <= j

C5_Witness ==
    /\ outp.op = "get_command_by_query"
    /\ inp.query = <<"z">>
    /\ NumCands = 2
    /\ Reaching = {1, 2}
    /\ ExactFused(1) # ExactFused(2)
    /\ Truncated(1) = Truncated(2)
    /\ outp.result = Found(1)

(* C6: visible_plugins is the whole list when show_hidden is set, and      *)
(* otherwise the plugins that are not hidden, all of them, in list order.  *)
C6_VisiblePlugins ==
    outp.op = "visible_plugins" =>
        /\ inp.show_hidden => outp.list = inp.cands
        /\ ~inp.show_hidden =>
              /\ \A k \in 1..Len(outp.list) : ~outp.list[k].hidden
              /\ Len(outp.list) =
                     Cardinality({i \in 1..NumCands : ~inp.cands[i].hidden})
              /\ \E f \in [1..Len(outp.list) -> 1..NumCands] :
                    /\ \A k \in 1..Len(outp.list) : outp.list[k] = inp.cands[f[k]]
                    /\ \A k \in 1..Len(outp.list) : \A l \in 1..Len(outp.list) :
                          k < l => f[k] < f[l]

C6_Witness ==
    /\ outp.op = "visible_plugins"
    /\ ~inp.show_hidden
    /\ NumCands = 2
    /\ inp.cands[1].hidden
    /\ ~inp.cands[2].hidden
    /\ outp.list = <<inp.cands[2]>>

(***************************************************************************)
(* Requests: the handlers of main.py with the image cache, the collector's *)
(* plugin list and the renderer.                                           *)
(*                                                                         *)
(* A handler is an async generator.  Nothing it awaits suspends, so the    *)
(* body up to its first yield is one step of the event loop; the step      *)
(* Resume is the generator being resumed after the yield and returning.    *)
(* req holds the request in flight: its arguments, what it yielded and     *)
(* what it called on the way.                                              *)
(***************************************************************************)
Users == {"admin", "user"}

AdminUsers == {"admin"}

IsAdmin_everyone(user) == TRUE

IsAdmin(user) == user \in AdminUsers

CanSeeHidden(c, user) ==
    IF ~c.admin_only_hidden THEN TRUE ELSE IsAdmin(user)

Command(name, hidden, adminOnly) ==
    [name |-> name, desc |-> TRUE, hidden |-> hidden, admin_only |-> adminOnly]

Plugin(name, hidden, commands) ==
    [name |-> name, desc |-> FALSE, hidden |-> hidden, commands |-> commands]

PlugA ==
    Plugin(<<"a">>, FALSE,
           <<Command(<<"s">>, FALSE, FALSE), Command(<<"t">>, FALSE, TRUE)>>)

PlugB == Plugin(<<"B">>, TRUE, <<>>)

PlugN == Plugin(<<"n">>, FALSE, <<>>)

(* What context.get_all_stars() may hold when a request arrives, in the    *)
(* host's order.                                                            *)
InstalledSets == {<<PlugB, PlugA>>, <<PlugN, PlugB>>}

(* Code points of the characters in use, for the order of str.             *)
CharCode(c) ==
    CASE c = "sp" -> 32
      [] c = "0" -> 48
      [] c = "1" -> 49
      [] c = "2" -> 50
      [] c = "3" -> 51
      [] c = "A" -> 65
      [] c = "B" -> 66
      [] c = "a" -> 97
      [] c = "b" -> 98
      [] c = "n" -> 110
      [] c = "s" -> 115
      [] c = "t" -> 116
      [] c = "z" -> 122
      [] c = "sup2" -> 178
      [] OTHER -> 0

RECURSIVE StrLess(_, _)
StrLess(s, t) ==
    IF t = <<>> THEN FALSE
    ELSE IF s = <<>> THEN TRUE
    ELSE IF CharCode(s[1]) # CharCode(t[1]) THEN CharCode(s[1]) < CharCode(t[1])
    ELSE StrLess(Tail(s), Tail(t))

RECURSIVE InsertByName(_, _)
InsertByName(sorted, p) ==
    IF sorted = <<>> THEN <<p>>
    ELSE IF StrLess(Lower(p.name), Lower(sorted[1].name))
         THEN <<p>> \o sorted
         ELSE <<sorted[1]>> \o InsertByName(Tail(sorted), p)

RECURSIVE SortByName(_)
SortByName(plugins) ==
    IF plugins = <<>> THEN <<>>
    ELSE InsertByName(SortByName(SubSeq(plugins, 1, Len(plugins) - 1)),
                      plugins[Len(plugins)])

CollectPlugins(stars, show_hidden) ==
    SortByName(SelectSeq(stars, LAMBDA p : show_hidden \/ ~p.hidden))

HelpPage(plugins, show_hidden, page_type) ==
    [plugins |-> plugins, show_hidden |-> show_hidden, page_type |-> page_type]

(* ---- the cache ---- *)
DigitChar(d) ==
    CASE d = 0 -> "0" [] d = 1 -> "1" [] d = 2 -> "2" [] d = 3 -> "3"
      [] d = 4 -> "4" [] d = 5 -> "5" [] d = 6 -> "6" [] d = 7 -> "7"
      [] d = 8 -> "8" [] d = 9 -> "9"

RECURSIVE StrInt(_)
StrInt(n) ==
    IF n < 10 THEN <<DigitChar(n)>>
    ELSE StrInt(n \div 10) \o <<DigitChar(n % 10)>>

StrBool(b) == IF b THEN <<"True">> ELSE <<"False">>

RECURSIVE Join(_)
Join(args) ==
    IF args = <<>> THEN <<>>
    ELSE IF Len(args) = 1 THEN args[1]
    ELSE args[1] \o <<"|">> \o Join(Tail(args))

(* md5 is taken to be free of collisions: the key is the joined content.   *)
GetCacheKey(args) == Join(args)

(* the argument tuples the handlers pass to get_cache_key                  *)
MainKeyArgs(count, show_hidden, theme) ==
    <<<<"main">>, StrInt(count), StrBool(show_hidden), <<theme>>>>

PluginKeyArgs(plugin_name, show_hidden, theme) ==
    <<<<"plugin">>, plugin_name, StrBool(show_hidden), <<theme>>>>

CommandKeyArgs(plugin_name, command_name, show_hidden, theme) ==
    <<<<"command">>, plugin_name, command_name, StrBool(show_hidden), <<theme>>>>

HasKey(c, key) == \E e \in c : e.key = key

Entry(c, key) == CHOOSE e \in c : e.key = key

NoImage ==
    [kind |-> "none", width |-> 0, height |-> 0, header |-> <<>>,
     plugins |-> <<>>, commands |-> <<>>, cards |-> <<>>, placeholder |-> FALSE]

Expired_inclusive(timestamp, t) == t - timestamp >= CacheExpire

Expired(timestamp, t) == t - timestamp > CacheExpire

GetCachedImage(c, key, t) ==
    IF ~cfg.cache_enabled \/ ~HasKey(c, key)
    THEN [hit |-> FALSE, image |-> NoImage, cache |-> c]
    ELSE IF Expired(Entry(c, key).timestamp, t)
    THEN [hit |-> FALSE, image |-> NoImage, cache |-> c \ {Entry(c, key)}]
    ELSE [hit |-> TRUE, image |-> Entry(c, key).image, cache |-> c]

CacheImage(c, key, image, t) ==
    IF cfg.cache_enabled
    THEN {e \in c : e.key # key}
            \cup {[key |-> key, image |-> image, timestamp |-> t]}
    ELSE c

(* ---- the renderer ---- *)
CommandCount(plugin) == Len(SelectSeq(plugin.commands, LAMBDA cmd : ~cmd.hidden))

(* get_visible_commands(self, show_hidden=False) called with the           *)
(* positional arguments args: more than one is a TypeError.                *)
GetVisibleCommands_lenient(commands, args) ==
    [raised |-> FALSE,
     list |-> IF Len(args) > 0 /\ args[1] THEN commands
              ELSE SelectSeq(commands, LAMBDA cmd : ~cmd.hidden)]

GetVisibleCommands(commands, args) ==
    IF Len(args) > 1 THEN [raised |-> TRUE, list |-> <<>>]
    ELSE [raised |-> FALSE,
          list |-> IF Len(args) > 0 /\ args[1] THEN commands
                   ELSE SelectSeq(commands, LAMBDA cmd : ~cmd.hidden)]

RenderRaised == [raised |-> TRUE, image |-> NoImage]

Rendered(image) == [raised |-> FALSE, image |-> image]

(* ---- layout: RenderConfig defaults and the constants of the renderer ---- *)
ImageWidth == 800

Padding == 20

CardSpacing == 15

Cols == 2

MainCardHeight == 120

MainHeaderHeight == 80

DetailCardHeight == 80

DetailHeaderHeight == 120

NoCommandsHeight == 50

(* math.ceil(n / cols) *)
CeilDiv(n, cols) == (n + cols - 1) \div cols

CardWidth(width) == (width - Padding * 2 - CardSpacing * (Cols - 1)) \div Cols

ContentHeight_gapPerRow(rows, card_height) == rows * (card_height + CardSpacing)

ContentHeight(rows, card_height) == rows * card_height + (rows - 1) * CardSpacing

(* the card of the item of 0-based position i, in a grid that starts at    *)
(* y_offset                                                                *)
CardRow(i) == i \div Cols

CardCol(i) == i % Cols

CardX(i, width) == Padding + CardCol(i) * (CardWidth(width) + CardSpacing)

CardY(i, y_offset, card_height) == y_offset + CardRow(i) * (card_height + CardSpacing)

MainTotalHeight(count) ==
    MainHeaderHeight + ContentHeight(CeilDiv(count, Cols), MainCardHeight)
        + Padding * 2

DetailTotalHeight(count) ==
    LET rows == IF count > 0 THEN CeilDiv(count, Cols) ELSE 0
    IN  DetailHeaderHeight
          + (IF rows > 0 THEN ContentHeight(rows, DetailCardHeight)
             ELSE NoCommandsHeight)
          + Padding * 2

(* _draw_plugin_card: the index, the name and, when the plugin has visible *)
(* commands, their number.                                                 *)
Badge_always(plugin) == [shown |-> TRUE, count |-> CommandCount(plugin)]

Badge(plugin) ==
    IF CommandCount(plugin) > 0
    THEN [shown |-> TRUE, count |-> CommandCount(plugin)]
    ELSE [shown |-> FALSE, count |-> 0]

PluginCard(i, plugin, width) ==
    [index |-> i + 1, name |-> plugin.name,
     command_count |-> CommandCount(plugin), badge |-> Badge(plugin),
     row |-> CardRow(i), col |-> CardCol(i),
     x |-> CardX(i, width),
     y |-> CardY(i, MainHeaderHeight + Padding, MainCardHeight)]

CommandCard(i, command, width) ==
    [index |-> i + 1, name |-> command.name,
     row |-> CardRow(i), col |-> CardCol(i),
     x |-> CardX(i, width),
     y |-> CardY(i, DetailHeaderHeight + Padding, DetailCardHeight)]

(* fails: Pillow raising while drawing or saving.                          *)
RenderMainPage(help_page, fails) ==
    LET plugins == VisiblePlugins(help_page.plugins, help_page.show_hidden)
    IN  IF fails THEN RenderRaised
        ELSE Rendered([kind |-> "main",
                       width |-> ImageWidth,
                       height |-> MainTotalHeight(Len(plugins)),
                       header |-> <<"title", "subtitle">>,
                       plugins |-> [i \in 1..Len(plugins) |->
                                      PluginCard(i - 1, plugins[i], ImageWidth)],
                       commands |-> <<>>,
                       cards |-> <<>>,
                       placeholder |-> FALSE])

RenderPluginDetail(help_page, plugin, is_admin, fails) ==
    LET visible == GetVisibleCommands(plugin.commands,
                                      <<help_page.show_hidden, is_admin>>)
    IN  IF visible.raised \/ fails THEN RenderRaised
        ELSE Rendered([kind |-> "plugin_detail",
                       width |-> ImageWidth,
                       height |-> DetailTotalHeight(Len(visible.list)),
                       header |-> <<"title">>,
                       plugins |-> <<>>,
                       commands |-> visible.list,
                       cards |-> [i \in 1..Len(visible.list) |->
                                    CommandCard(i - 1, visible.list[i], ImageWidth)],
                       placeholder |-> visible.list = <<>>])

(* HelpImageRenderer has no attribute render_command_detail: looking it up *)
(* raises AttributeError.                                                  *)
RenderCommandDetail(help_page, plugin, command) == RenderRaised

(* ---- messages and the record of a request ---- *)
ImageMsg(image) == [type |-> "image", text |-> "", args |-> <<>>, image |-> image]

TextMsg(text, args) == [type |-> "text", text |-> text, args |-> args, image |-> NoImage]

Ran(c, out, plugin, command, renders, raised, lookups, stores, key, calls) ==
    [cache |-> c, out |-> out, plugin |-> plugin, command |-> command,
     renders |-> renders, render_raised |-> raised,
     lookups |-> lookups, stores |-> stores, key |-> key, calls |-> calls]

ServeImage_storesFailure(key, render, plugin, command, calls, errorText) ==
    LET cached == GetCachedImage(cache, key, now)
    IN  IF cached.hit
        THEN Ran(cached.cache, <<ImageMsg(cached.image)>>, plugin, command,
                 0, FALSE, 1, 0, key, calls)
        ELSE IF render.raised
        THEN Ran(CacheImage(cached.cache, key, render.image, now),
                 <<TextMsg(errorText, <<>>)>>, plugin, command, 1, TRUE, 1, 1, key, calls)
        ELSE Ran(CacheImage(cached.cache, key, render.image, now),
                 <<ImageMsg(render.image)>>, plugin, command, 1, FALSE, 1, 1, key, calls)

(* the part of a handler from the cache key on: lookup, render, store,     *)
(* send; render is the outcome of the render call, made only on a miss.    *)
ServeImage(key, render, plugin, command, calls, errorText) ==
    LET cached == GetCachedImage(cache, key, now)
    IN  IF cached.hit
        THEN Ran(cached.cache, <<ImageMsg(cached.image)>>, plugin, command,
                 0, FALSE, 1, 0, key, calls)
        ELSE IF render.raised
        THEN Ran(cached.cache, <<TextMsg(errorText, <<>>)>>, plugin, command,
                 1, TRUE, 1, 0, key, calls)
        ELSE Ran(CacheImage(cached.cache, key, render.image, now),
                 <<ImageMsg(render.image)>>, plugin, command, 1, FALSE, 1, 1, key, calls)

RunMainPage(plugins, show_hidden, fails) ==
    ServeImage(GetCacheKey(MainKeyArgs(Len(plugins), show_hidden, cfg.theme)),
               RenderMainPage(HelpPage(plugins, show_hidden, "main"), fails),
               NotFound, NotFound, <<>>, "main_error")

RunPluginDetail(plugin_query, plugins, show_hidden, sc, fails) ==
    LET plugin == GetByQuery("plugin", plugin_query, plugins, sc,
                             PinyinOn(cfg, plugin_query), cfg.fuzzy_threshold)
    IN  IF plugin = Raised
        THEN Ran(cache, <<TextMsg("plugin_error", <<>>)>>, plugin, NotFound,
                 0, FALSE, 0, 0, <<>>, <<"get_plugin_by_query">>)
        ELSE IF plugin = NotFound
        THEN Ran(cache, <<TextMsg("plugin_not_found", <<plugin_query>>)>>,
                 plugin, NotFound, 0, FALSE, 0, 0, <<>>,
                 <<"get_plugin_by_query">>)
        ELSE ServeImage(GetCacheKey(PluginKeyArgs(plugins[plugin.idx].name,
                                                  show_hidden, cfg.theme)),
                        RenderPluginDetail(
                            HelpPage(<<plugins[plugin.idx]>>, show_hidden,
                                     "plugin_detail"),
                            plugins[plugin.idx], FALSE, fails),
                        plugin, NotFound, <<"get_plugin_by_query">>, "plugin_error")

CommandsOf(plugin, plugins) ==
    IF plugin.tag = "found" THEN plugins[plugin.idx].commands ELSE <<>>

RunCommandDetail(plugin_query, command_query, plugins, show_hidden, sc, csc) ==
    LET plugin == GetByQuery("plugin", plugin_query, plugins, sc,
                             PinyinOn(cfg, plugin_query), cfg.fuzzy_threshold)
        commands == CommandsOf(plugin, plugins)
        command == GetByQuery("command", command_query, commands, csc,
                              FALSE, cfg.fuzzy_threshold)
    IN  IF plugin = Raised
        THEN Ran(cache, <<TextMsg("command_error", <<>>)>>, plugin, NotFound,
                 0, FALSE, 0, 0, <<>>, <<"get_plugin_by_query">>)
        ELSE IF plugin = NotFound
        THEN Ran(cache, <<TextMsg("plugin_not_found", <<plugin_query>>)>>,
                 plugin, NotFound, 0, FALSE, 0, 0, <<>>,
                 <<"get_plugin_by_query">>)
        ELSE IF command = Raised
        THEN Ran(cache, <<TextMsg("command_error", <<>>)>>, plugin, command,
                 0, FALSE, 0, 0, <<>>,
                 <<"get_plugin_by_query", "get_command_by_query">>)
        ELSE IF command = NotFound
        THEN Ran(cache, <<TextMsg("command_not_found",
                                  <<plugins[plugin.idx].name, command_query>>)>>,
                 plugin, command, 0, FALSE, 0, 0, <<>>,
                 <<"get_plugin_by_query", "get_command_by_query">>)
        ELSE ServeImage(GetCacheKey(CommandKeyArgs(plugins[plugin.idx].name,
                                                   commands[command.idx].name,
                                                   show_hidden, cfg.theme)),
                        RenderCommandDetail(
                            HelpPage(<<plugins[plugin.idx]>>, show_hidden,
                                     "command_detail"),
                            plugins[plugin.idx], commands[command.idx]),
                        plugin, command,
                        <<"get_plugin_by_query", "get_command_by_query">>,
                        "command_error")

(* ---- parse_help_query ---- *)
RECURSIVE LStrip(_)
LStrip(s) ==
    IF s # <<>> /\ s[1] = "sp" THEN LStrip(Tail(s)) ELSE s

RECURSIVE RStrip(_)
RStrip(s) ==
    IF s # <<>> /\ s[Len(s)] = "sp" THEN RStrip(SubSeq(s, 1, Len(s) - 1)) ELSE s

RECURSIVE FirstToken(_)
FirstToken(s) ==
    IF s = <<>> \/ s[1] = "sp" THEN <<>>
    ELSE <<s[1]>> \o FirstToken(Tail(s))

(* None is <<>>: the caller tests "not plugin_query".                      *)
ParseHelpQuery(query) ==
    IF query = <<>> THEN [plugin_query |-> <<>>, command_query |-> <<>>]
    ELSE LET stripped == RStrip(LStrip(query))
             first == FirstToken(stripped)
         IN  [plugin_query |-> first,
              command_query |->
                  LStrip(SubSeq(stripped, Len(first) + 1, Len(stripped)))]

(* ---- inputs of the requests ---- *)
PluginQueries == {<<"1">>, <<"a">>, <<"z">>, <<"sup2">>}

CommandQueries == {<<"2">>, <<"t">>, <<"z">>, <<"sup2">>}

RawQueries ==
    {<<>>, <<"sp">>, <<"a">>, <<"a", "sp", "sp", "t">>,
     <<"sp", "1", "sp", "t", "sp", "z">>}

RequestRows ==
    { [ns |-> 0, ps |-> 0, ds |-> 0], [ns |-> 100, ps |-> 0, ds |-> 0] }

ScoreChoices(query, cands) ==
    {sc \in [1..Len(cands) -> RequestRows] : LibraryScores(query, cands, sc)}

Request(handler, user, show_hidden, plugins, pq, cq, sc, csc, ran) ==
    [pc |-> "yielded", handler |-> handler, user |-> user,
     show_hidden |-> show_hidden, plugins |-> plugins,
     plugin_query |-> pq, command_query |-> cq,
     sc |-> sc, csc |-> csc, key |-> ran.key, calls |-> ran.calls,
     out |-> ran.out, plugin |-> ran.plugin, command |-> ran.command,
     renders |-> ran.renders, render_raised |-> ran.render_raised,
     lookups |-> ran.lookups, stores |-> ran.stores,
     cache_before |-> cache, started |-> now]

(* The state once a plugin object exists.  (HelpImageRenderer.__init__     *)
(* passes col_count and col_width to RenderConfig, which has no such       *)
(* fields; the handlers are modelled on an object that was constructed.)   *)
Init ==
    /\ cfg \in {Config(h, c, TRUE) : h \in BOOLEAN, c \in BOOLEAN}
    /\ cache = {}
    /\ now = 0
    /\ req = NoRequest
    /\ inp = NoInput
    /\ outp = NoOutput

ShowMainPage ==
    /\ req.pc = "idle"
    /\ \E user \in Users, stars \in InstalledSets, fails \in BOOLEAN :
          LET show_hidden == CanSeeHidden(cfg, user)
              plugins == CollectPlugins(stars, show_hidden)
              ran == RunMainPage(plugins, show_hidden, fails)
          IN  /\ cache' = ran.cache
              /\ req' = Request("main", user, show_hidden, plugins,
                                <<>>, <<>>, <<>>, <<>>, ran)
    /\ UNCHANGED <<cfg, now, inp, outp>>

ShowPluginDetail ==
    /\ req.pc = "idle"
    /\ \E user \in Users, stars \in InstalledSets,
          plugin_query \in PluginQueries, fails \in BOOLEAN :
          LET show_hidden == CanSeeHidden(cfg, user)
              plugins == CollectPlugins(stars, show_hidden)
          IN  \E sc \in ScoreChoices(plugin_query, plugins) :
                 LET ran == RunPluginDetail(plugin_query, plugins,
                                            show_hidden, sc, fails)
                 IN  /\ cache' = ran.cache
                     /\ req' = Request("plugin_detail", user, show_hidden,
                                       plugins, plugin_query, <<>>, sc, <<>>,
                                       ran)
    /\ UNCHANGED <<cfg, now, inp, outp>>

ShowCommandDetail ==
    /\ req.pc = "idle"
    /\ \E user \in Users, stars \in InstalledSets,
          plugin_query \in PluginQueries, command_query \in CommandQueries :
          LET show_hidden == CanSeeHidden(cfg, user)
              plugins == CollectPlugins(stars, show_hidden)
          IN  \E sc \in ScoreChoices(plugin_query, plugins) :
                 LET plugin == GetByQuery("plugin", plugin_query, plugins, sc,
                                          PinyinOn(cfg, plugin_query),
                                          cfg.fuzzy_threshold)
                 IN  \E csc \in ScoreChoices(command_query,
                                             CommandsOf(plugin, plugins)) :
                        LET ran == RunCommandDetail(plugin_query, command_query,
                                                    plugins, show_hidden, sc, csc)
                        IN  /\ cache' = ran.cache
                            /\ req' = Request("command_detail", user,
                                              show_hidden, plugins, plugin_query,
                                              command_query, sc, csc, ran)
    /\ UNCHANGED <<cfg, now, inp, outp>>

(* help_command: the three handlers are async generators, and awaiting an  *)
(* async generator object is a TypeError, caught by help_command itself.   *)
HelpCommand ==
    /\ req.pc = "idle"
    /\ \E user \in Users, stars \in InstalledSets, query \in RawQueries :
          LET show_hidden == CanSeeHidden(cfg, user)
              plugins == CollectPlugins(stars, show_hidden)
              parsed == ParseHelpQuery(query)
          IN  req' = Request("help", user, show_hidden, plugins,
                             parsed.plugin_query, parsed.command_query,
                             <<>>, <<>>,
                             Ran(cache, <<TextMsg("help_error", <<>>)>>,
                                 NotFound, NotFound, 0, FALSE, 0, 0, <<>>, <<>>))
    /\ UNCHANGED <<cfg, cache, now, inp, outp>>

Resume ==
    /\ req.pc = "yielded"
    /\ req' = NoRequest
    /\ UNCHANGED <<cfg, cache, now, inp, outp>>

Tick ==
    /\ now < MaxTime
    /\ now' = now + 1
    /\ UNCHANGED <<cfg, cache, req, inp, outp>>

Next ==
    \/ ShowMainPage
    \/ ShowPluginDetail
    \/ ShowCommandDetail
    \/ HelpCommand
    \/ Resume
    \/ Tick

Spec == Init /\ [][Next]_vars

(***************************************************************************)
(* Claims about the requests, under Spec.  They are stated of a request    *)
(* that has run up to its yield.                                           *)
(***************************************************************************)
Yielded == req.pc = "yielded"

DetailHandlers == {"plugin_detail", "command_detail"}

FailureTexts == {"main_error", "plugin_error", "command_error"}

ImagesOf(out) == {out[k].image : k \in {j \in 1..Len(out) : out[j].type = "image"}}

ShowsAdminOnly(image) ==
    \E k \in 1..Len(image.commands) : image.commands[k].admin_only

ResolvedPlugin == req.plugins[req.plugin.idx]

ResolvedCommand == ResolvedPlugin.commands[req.command.idx]

HasAdminOnly(plugin) ==
    \E k \in 1..Len(plugin.commands) : plugin.commands[k].admin_only

(* C7: a requester who is not an admin is never sent an image that shows   *)
(* a command with admin_only = true, by any handler, from a fresh render   *)
(* or from the cache, whatever show_hidden is.                             *)
C7_NoAdminOnlyForNonAdmin ==
    (Yielded /\ ~IsAdmin(req.user)) =>
        \A image \in ImagesOf(req.out) : ~ShowsAdminOnly(image)

(* a non-admin, allowed to see hidden content, has asked for the detail of *)
(* an admin_only command and the handler resolved it                       *)
C7_Witness ==
    /\ Yielded
    /\ ~IsAdmin(req.user)
    /\ req.show_hidden
    /\ req.handler = "command_detail"
    /\ req.command.tag = "found"
    /\ ResolvedCommand.admin_only
    /\ req.renders = 1

(* C8: an admin's plugin-detail request for a plugin with admin_only       *)
(* commands is answered with an image that has a card for each of them.    *)
C8_AdminSeesAdminOnly ==
    (/\ Yielded
     /\ req.handler = "plugin_detail"
     /\ IsAdmin(req.user)
     /\ req.plugin.tag = "found"
     /\ HasAdminOnly(ResolvedPlugin)) =>
        \E image \in ImagesOf(req.out) :
           \A k \in 1..Len(ResolvedPlugin.commands) :
              ResolvedPlugin.commands[k].admin_only =>
                 \E m \in 1..Len(image.commands) :
                    image.commands[m] = ResolvedPlugin.commands[k]

OneFailureText ==
    /\ Len(req.out) = 1
    /\ req.out[1].type = "text"
    /\ req.out[1].text \in FailureTexts

(* C9 as claimed: when the renderer raises, the handler yields exactly one *)
(* failure text and no image, and the cache is exactly what it was before  *)
(* the request.                                                            *)
C9_FailedRenderLeavesCache ==
    (Yielded /\ req.render_raised) =>
        /\ OneFailureText
        /\ cache = req.cache_before

(* C9 amended: when the renderer raises, the handler yields exactly one    *)
(* failure text and no image, and no entry is inserted or replaced in the  *)
(* cache; the only change it can make is the removal of the entry under    *)
(* the request's own key, when that entry had expired.                     *)
C9_FailedRenderInsertsNothing ==
    (Yielded /\ req.render_raised) =>
        /\ OneFailureText
        /\ cache \subseteq req.cache_before
        /\ \A e \in req.cache_before \ cache :
              e.key = req.key /\ req.started - e.timestamp > CacheExpire

(* a render has failed in a request whose key had an expired entry         *)
C9_Witness ==
    /\ Yielded
    /\ req.render_raised
    /\ req.renders = 1
    /\ cache # req.cache_before

ReachesThreshold(kind, cands, sc, query) ==
    \E i \in 1..Len(cands) :
       FinalScore(kind, cands[i], sc[i], kind = "plugin" /\ PinyinOn(cfg, query))
           >= 10 * cfg.fuzzy_threshold

(* a query matches a candidate as an index, as a name or by similarity     *)
Matches(kind, query, cands, sc) ==
    \/ IsDecimal(query) /\ 1 <= ParseInt(query) /\ ParseInt(query) <= Len(cands)
    \/ \E i \in 1..Len(cands) : Lower(cands[i].name) = Lower(query)
    \/ ReachesThreshold(kind, cands, sc, query)

PluginMiss ==
    /\ Yielded
    /\ req.handler \in DetailHandlers
    /\ ~Matches("plugin", req.plugin_query, req.plugins, req.sc)

CommandMiss ==
    /\ Yielded
    /\ req.handler = "command_detail"
    /\ Matches("plugin", req.plugin_query, req.plugins, req.sc)
    /\ req.plugin.tag = "found"
    /\ ~Matches("command", req.command_query, ResolvedPlugin.commands, req.csc)

NothingTouched ==
    /\ req.renders = 0
    /\ req.lookups = 0
    /\ req.stores = 0
    /\ cache = req.cache_before

(* C10: a plugin query that matches no plugin, or a command query that     *)
(* matches no command of the resolved plugin, ends the request with        *)
(* exactly one 'not found' text naming the query, without a render, a      *)
(* cache lookup or a cache store, each resolver having been called once;   *)
(* on a plugin miss the command query is not examined.                     *)
C10_MissIsNotFound ==
    /\ PluginMiss =>
          /\ req.out = <<TextMsg("plugin_not_found", <<req.plugin_query>>)>>
          /\ NothingTouched
          /\ req.calls = <<"get_plugin_by_query">>
    /\ CommandMiss =>
          /\ req.out = <<TextMsg("command_not_found",
                                 <<ResolvedPlugin.name, req.command_query>>)>>
          /\ NothingTouched
          /\ req.calls = <<"get_plugin_by_query", "get_command_by_query">>

(* what a fresh render of the request's own plugin list would show         *)
FreshMainImage ==
    RenderMainPage(HelpPage(req.plugins, req.show_hidden, "main"), FALSE).image

(* C11: the cache key tells main pages of different plugin lists apart, so *)
(* an image a main-page request sends, from a render or from the cache, is *)
(* the image of the plugin list of that request.                           *)
C11_MainImageIsOfItsList ==
    (Yielded /\ req.handler = "main") =>
        \A image \in ImagesOf(req.out) : image = FreshMainImage

(***************************************************************************)
(* Cache keys as a pure function: two key requests are drawn and           *)
(* get_cache_key is applied to the argument tuple of each.                 *)
(***************************************************************************)
KeyPluginNames == {<<"a">>, <<"a", "|", "b">>}

KeyCommandNames == {<<"c">>, <<"b", "|", "c">>}

KeyThemes == {"light", "dark"}

KeyRequests ==
    [kind : {"plugin"}, plugin : KeyPluginNames, command : {<<>>},
     show_hidden : BOOLEAN, theme : KeyThemes]
    \cup [kind : {"command"}, plugin : KeyPluginNames, command : KeyCommandNames,
          show_hidden : BOOLEAN, theme : KeyThemes]

KeyArgs(r) ==
    IF r.kind = "plugin" THEN PluginKeyArgs(r.plugin, r.show_hidden, r.theme)
    ELSE CommandKeyArgs(r.plugin, r.command, r.show_hidden, r.theme)

InitKeys ==
    /\ cfg = Config(TRUE, TRUE, TRUE)
    /\ cache = {}
    /\ now = 0
    /\ req = NoRequest
    /\ \E first \in KeyRequests, second \in KeyRequests :
          inp = [first |-> first, second |-> second]
    /\ outp = NoOutput

CallGetCacheKey ==
    /\ outp.op = "none"
    /\ outp' = [op |-> "get_cache_key", result |-> NotFound,
                list |-> <<GetCacheKey(KeyArgs(inp.first)),
                           GetCacheKey(KeyArgs(inp.second))>>]
    /\ UNCHANGED <<cfg, cache, now, req, inp>>

NextKeys == CallGetCacheKey

SpecKeys == InitKeys /\ [][NextKeys]_vars

(* C12: two key requests that differ in kind, plugin name, command name,   *)
(* show_hidden or theme never get the same key, names containing the       *)
(* separator included.                                                     *)
C12_DistinctTuplesDistinctKeys ==
    (outp.op = "get_cache_key" /\ inp.first # inp.second) =>
        outp.list[1] # outp.list[2]

(***************************************************************************)
(* The cache on its own: cache_image and get_cached_image called in any    *)
(* order on a few keys while time passes.  inp is the log of the calls of  *)
(* cache_image (the last one per key), outp the last call and its result.  *)
(***************************************************************************)
CacheKeys ==
    {GetCacheKey(MainKeyArgs(1, FALSE, "light")),
     GetCacheKey(MainKeyArgs(2, TRUE, "light"))}

CacheImages ==
    {RenderMainPage(HelpPage(<<PlugA>>, FALSE, "main"), FALSE).image,
     RenderMainPage(HelpPage(<<PlugN>>, FALSE, "main"), FALSE).image}

InitCache ==
    /\ cfg \in {Config(TRUE, c, TRUE) : c \in BOOLEAN}
    /\ cache = {}
    /\ now = 0
    /\ req = NoRequest
    /\ inp = {}
    /\ outp = [op |-> "none"]

CallCacheImage ==
    /\ \E key \in CacheKeys, image \in CacheImages :
          /\ cache' = CacheImage(cache, key, image, now)
          /\ inp' = {e \in inp : e.key # key}
                       \cup {[key |-> key, image |-> image, timestamp |-> now]}
          /\ outp' = [op |-> "cache_image", key |-> key, time |-> now,
                      hit |-> FALSE, image |-> image, cache_before |-> cache]
    /\ UNCHANGED <<cfg, now, req>>

CallGetCachedImage ==
    /\ \E key \in CacheKeys :
          LET cached == GetCachedImage(cache, key, now)
          IN  /\ cache' = cached.cache
              /\ outp' = [op |-> "get_cached_image", key |-> key, time |-> now,
                          hit |-> cached.hit, image |-> cached.image,
                          cache_before |-> cache]
    /\ UNCHANGED <<cfg, now, req, inp>>

TickCache ==
    /\ now < MaxTime
    /\ now' = now + 1
    /\ UNCHANGED <<cfg, cache, req, inp, outp>>

NextCache ==
    \/ CallCacheImage
    \/ CallGetCachedImage
    \/ TickCache

SpecCache == InitCache /\ [][NextCache]_vars

ReadOf == outp.op = "get_cached_image"

EntryRead == Entry(outp.cache_before, outp.key)

AgeRead == outp.time - EntryRead.timestamp

(* C13: a read returns an image only if cache_image was called for the key *)
(* at most cache_expire earlier, and then that image; a read of an entry   *)
(* older than cache_expire returns nothing and removes that entry and no   *)
(* other; a read of an entry not older than cache_expire returns it and    *)
(* leaves the cache, timestamps included, as it was.                       *)
C13_CacheLifetime ==
    ReadOf =>
        /\ outp.hit =>
              \E e \in inp : /\ e.key = outp.key
                             /\ e.image = outp.image
                             /\ outp.time - e.timestamp <= CacheExpire
        /\ (HasKey(outp.cache_before, outp.key) /\ AgeRead > CacheExpire) =>
              /\ ~outp.hit
              /\ cache = outp.cache_before \ {EntryRead}
        /\ (HasKey(outp.cache_before, outp.key) /\ AgeRead <= CacheExpire) =>
              /\ outp.hit
              /\ cache = outp.cache_before

(* an expired entry has been read and removed while a second entry stayed  *)
C13_Witness ==
    /\ ReadOf
    /\ HasKey(outp.cache_before, outp.key)
    /\ AgeRead > CacheExpire
    /\ Cardinality(outp.cache_before) = 2
    /\ Cardinality(cache) = 1

(***************************************************************************)
(* The renderer on its own: a list of up to MaxItems plugins for the main  *)
(* page, a plugin of up to MaxItems commands for the plugin detail.        *)
(* hide_every = k > 0 makes every k-th item hidden.                        *)
(***************************************************************************)
HiddenAt(i, hide_every) == hide_every > 0 /\ i % hide_every = 0

ItemCommands(count, hide_every) ==
    [j \in 1..count |-> Command(<<"c">>, HiddenAt(j, hide_every), j % 2 = 1)]

ItemPlugins(count, hide_every) ==
    [i \in 1..count |->
        Plugin(<<"p">>, HiddenAt(i, hide_every), ItemCommands(i % 3, 2))]

InitLayout ==
    /\ cfg = Config(TRUE, TRUE, TRUE)
    /\ cache = {}
    /\ now = 0
    /\ req = NoRequest
    /\ \E count \in 0..MaxItems, hide_every \in {0, 2, 3}, sh \in BOOLEAN :
          inp = [count |-> count, hide_every |-> hide_every, show_hidden |-> sh,
                 plugins |-> ItemPlugins(count, hide_every),
                 plugin |-> Plugin(<<"p">>, FALSE,
                                   ItemCommands(count, hide_every))]
    /\ outp = [op |-> "none"]

CallRenderMainPage ==
    /\ outp.op = "none"
    /\ outp' = [op |-> "render_main_page",
                result |-> RenderMainPage(
                               HelpPage(inp.plugins, inp.show_hidden, "main"),
                               FALSE)]
    /\ UNCHANGED <<cfg, cache, now, req, inp>>

CallRenderPluginDetail ==
    /\ outp.op = "none"
    /\ outp' = [op |-> "render_plugin_detail",
                result |-> RenderPluginDetail(
                               HelpPage(<<inp.plugin>>, inp.show_hidden,
                                        "plugin_detail"),
                               inp.plugin, FALSE, FALSE)]
    /\ UNCHANGED <<cfg, cache, now, req, inp>>

NextLayout ==
    \/ CallRenderMainPage
    \/ CallRenderPluginDetail

SpecLayout == InitLayout /\ [][NextLayout]_vars

RenderOps == {"render_main_page", "render_plugin_detail"}

(* the items the page is about: the visible plugins, the visible commands  *)
ShownPlugins == VisiblePlugins(inp.plugins, inp.show_hidden)

ShownCommands ==
    IF inp.show_hidden THEN inp.plugin.commands
    ELSE SelectSeq(inp.plugin.commands, LAMBDA cmd : ~cmd.hidden)

DrawnElements(image) ==
    Len(image.header) + Len(image.plugins) + Len(image.cards)
        + (IF image.placeholder THEN 1 ELSE 0)

PositiveCanvas ==
    /\ ~outp.result.raised
    /\ outp.result.image.width > 0
    /\ outp.result.image.height > 0
    /\ DrawnElements(outp.result.image) >= 1

(* C14: for any number of items, zero, one and more than 20 included, the  *)
(* main page and the plugin detail produce a canvas of positive width and  *)
(* height with at least one element drawn, and the plugin detail of a      *)
(* plugin without visible commands shows the placeholder and no card.      *)
C14_PositiveCanvas ==
    /\ outp.op \in RenderOps => PositiveCanvas
    /\ (outp.op = "render_plugin_detail" /\ ShownCommands = <<>>) =>
          /\ outp.result.image.placeholder
          /\ outp.result.image.cards = <<>>

MainCards == outp.result.image.plugins

(* the number of commands of a plugin that are not hidden, admin_only or   *)
(* not                                                                     *)
NotHiddenCount(plugin) ==
    Cardinality({k \in 1..Len(plugin.commands) : ~plugin.commands[k].hidden})

CardsInOrder ==
    /\ ~outp.result.raised
    /\ Len(MainCards) = Len(ShownPlugins)
    /\ \A i \in 1..Len(MainCards) :
          /\ MainCards[i].index = i
          /\ MainCards[i].name = ShownPlugins[i].name
          /\ MainCards[i].row = (i - 1) \div 2
          /\ MainCards[i].col = (i - 1) % 2

(* C15 as claimed: one card per visible plugin, in list order, the i-th    *)
(* numbered i at row (i-1) div 2 and column (i-1) mod 2, and every card    *)
(* has a badge with the number of the plugin's non-hidden commands.        *)
C15_EveryCardHasBadge ==
    outp.op = "render_main_page" =>
        /\ CardsInOrder
        /\ \A i \in 1..Len(MainCards) :
              /\ MainCards[i].badge.shown
              /\ MainCards[i].badge.count = NotHiddenCount(ShownPlugins[i])

(* C15 amended: one card per visible plugin, in list order, the i-th       *)
(* numbered i at row (i-1) div 2 and column (i-1) mod 2; a card has a      *)
(* badge, with the number of the plugin's non-hidden commands, exactly     *)
(* when that number is positive.                                           *)
C15_BadgeWhenPositive ==
    outp.op = "render_main_page" =>
        /\ CardsInOrder
        /\ \A i \in 1..Len(MainCards) :
              /\ MainCards[i].badge.shown = (NotHiddenCount(ShownPlugins[i]) > 0)
              /\ MainCards[i].badge.shown =>
                    MainCards[i].badge.count = NotHiddenCount(ShownPlugins[i])

(* a main page of several rows, drawn from a list with hidden plugins, in  *)
(* which one card has no badge and one counts an admin_only command        *)
C15_Witness ==
    /\ outp.op = "render_main_page"
    /\ ~inp.show_hidden
    /\ Len(ShownPlugins) < Len(inp.plugins)
    /\ Len(MainCards) >= 5
    /\ \E i \in 1..Len(MainCards) : ~MainCards[i].badge.shown
    /\ \E i \in 1..Len(MainCards) :
          /\ MainCards[i].badge.shown
          /\ \E k \in 1..Len(ShownPlugins[i].commands) :
                /\ ShownPlugins[i].commands[k].admin_only
                /\ ~ShownPlugins[i].commands[k].hidden

MainRows == (Len(ShownPlugins) + 1) \div 2

(* C16 as claimed: the height of the main-page canvas is the header block  *)
(* plus ceil(count/2) rows of (card height + spacing) plus the padding,    *)
(* the padding being counted above and below.                              *)
C16_HeightRowsOfCardAndGap ==
    outp.op = "render_main_page" =>
        outp.result.image.height = 80 + MainRows * (120 + 15) + 2 * 20

(* C16 amended: the height of the main-page canvas is the header (80) plus *)
(* ceil(count/2) card heights (120) plus one spacing (15) between          *)
(* consecutive rows, that is rows - 1 spacings, plus the padding (20)      *)
(* twice; with no visible plugin the rows - 1 term is -15 and the height   *)
(* is 105.                                                                 *)
C16_HeightGapsBetweenRows ==
    outp.op = "render_main_page" =>
        outp.result.image.height
            = 80 + MainRows * 120 + (MainRows - 1) * 15 + 2 * 20

(* a main page of 21 cards in eleven rows                                  *)
C16_Witness ==
    /\ outp.op = "render_main_page"
    /\ Len(ShownPlugins) = 21
    /\ outp.result.image.height = 1590

(***************************************************************************)
(* _wrap_text.  A string is a tuple of characters, "sp" a space and "zh"   *)
(* a character of U+4E00..U+9FFF.  The font is a width per character and   *)
(* the width of a string the sum of the widths of its characters.          *)
(***************************************************************************)
WrapChars == {"a", "b", "sp", "zh"}

ChineseChars == {"zh"}

WhitespaceChars == {"sp"}

ContainsChinese(text) == \E i \in 1..Len(text) : text[i] \in ChineseChars

RECURSIVE TextWidth(_, _)
TextWidth(text, font) ==
    IF text = <<>> THEN 0 ELSE font[text[1]] + TextWidth(Tail(text), font)

(* str.split(): the maximal runs of characters that are not whitespace     *)
RECURSIVE SplitFrom(_, _)
SplitFrom(text, word) ==
    IF text = <<>> THEN (IF word = <<>> THEN <<>> ELSE <<word>>)
    ELSE IF text[1] \in WhitespaceChars
         THEN (IF word = <<>> THEN <<>> ELSE <<word>>) \o SplitFrom(Tail(text), <<>>)
         ELSE SplitFrom(Tail(text), Append(word, text[1]))

Split(text) == SplitFrom(text, <<>>)

Characters(text) == [i \in 1..Len(text) |-> <<text[i]>>]

Fits_lenient(text_width, max_width) == text_width <= max_width + 1

Fits_always(text_width, max_width) == TRUE

Fits(text_width, max_width) == text_width <= max_width

FlushLine(lines, current_line) ==
    IF current_line # <<>> THEN Append(lines, current_line) ELSE lines

StartLine_dropped(token) == <<>>

StartLine(token) == token

(* one turn of either loop: sep is "" between characters, " " between words *)
WrapStep(acc, token, sep, font, max_width) ==
    LET test_line ==
            acc.current_line \o (IF acc.current_line # <<>> THEN sep ELSE <<>>)
                \o token
    IN  IF Fits(TextWidth(test_line, font), max_width)
        THEN [lines |-> acc.lines, current_line |-> test_line]
        ELSE [lines |-> FlushLine(acc.lines, acc.current_line),
              current_line |-> StartLine(token)]

RECURSIVE WrapLoop(_, _, _, _, _)
WrapLoop(acc, tokens, sep, font, max_width) ==
    IF tokens = <<>> THEN acc
    ELSE WrapLoop(WrapStep(acc, tokens[1], sep, font, max_width),
                  Tail(tokens), sep, font, max_width)

WrapText(text, font, max_width) ==
    IF text = <<>> THEN <<>>
    ELSE LET start == [lines |-> <<>>, current_line |-> <<>>]
             done == IF ContainsChinese(text)
                     THEN WrapLoop(start, Characters(text), <<>>, font, max_width)
                     ELSE WrapLoop(start, Split(text), <<"sp">>, font, max_width)
         IN  FlushLine(done.lines, done.current_line)

Texts == UNION { [1..n -> WrapChars] : n \in 0..MaxText }

Fonts == [WrapChars -> {0, 1, 3}]

MaxWidths == {0, 2, 3}

InitWrap ==
    /\ cfg = Config(TRUE, TRUE, TRUE)
    /\ cache = {}
    /\ now = 0
    /\ req = NoRequest
    /\ \E text \in Texts, font \in Fonts, max_width \in MaxWidths :
          inp = [text |-> text, font |-> font, max_width |-> max_width]
    /\ outp = [op |-> "none"]

CallWrapText ==
    /\ outp.op = "none"
    /\ outp' = [op |-> "_wrap_text",
                lines |-> WrapText(inp.text, inp.font, inp.max_width)]
    /\ UNCHANGED <<cfg, cache, now, req, inp>>

NextWrap == CallWrapText

SpecWrap == InitWrap /\ [][NextWrap]_vars

Wrapped == outp.op = "_wrap_text"

(* the tokens of a string in the mode the input is wrapped in              *)
TokensOf(text) ==
    IF ContainsChinese(inp.text) THEN [i \in 1..Len(text) |-> <<text[i]>>]
    ELSE Split(text)

LineWidth(line) == TextWidth(line, inp.font)

RECURSIVE Flatten(_)
Flatten(seqs) == IF seqs = <<>> THEN <<>> ELSE seqs[1] \o Flatten(Tail(seqs))

NonWhitespace(text) == SelectSeq(text, LAMBDA c : c \notin WhitespaceChars)

(* C17 as claimed: every returned line is at most max_width wide.          *)
C17_EveryLineFits ==
    Wrapped => \A k \in 1..Len(outp.lines) : LineWidth(outp.lines[k]) <= inp.max_width

(* C17 amended: every returned line is at most max_width wide, unless it   *)
(* is a single token (one character in the per-character mode, one word in *)
(* the per-word mode) that is wider than max_width by itself.              *)
C17_LineFitsOrSingleToken ==
    Wrapped =>
        \A k \in 1..Len(outp.lines) :
           \/ LineWidth(outp.lines[k]) <= inp.max_width
           \/ Len(TokensOf(outp.lines[k])) = 1

(* in the per-word mode one word has got a line that fits and another, a   *)
(* word wider than max_width, a line of its own                            *)
C17_Witness ==
    /\ Wrapped
    /\ ~ContainsChinese(inp.text)
    /\ \E k \in 1..Len(outp.lines) :
          /\ LineWidth(outp.lines[k]) > 0
          /\ LineWidth(outp.lines[k]) <= inp.max_width
    /\ \E k \in 1..Len(outp.lines) : LineWidth(outp.lines[k]) > inp.max_width

(* C18: the lines, concatenated, hold the characters of the input that are *)
(* not whitespace, each once and in the order of the input, and no line is *)
(* the empty string.                                                       *)
C18_CharactersPreserved ==
    Wrapped =>
        /\ NonWhitespace(Flatten(outp.lines)) = NonWhitespace(inp.text)
        /\ \A k \in 1..Len(outp.lines) : outp.lines[k] # <<>>

(* a text with whitespace at both ends and between words, wrapped into     *)
(* more than one line                                                      *)
C18_Witness ==
    /\ Wrapped
    /\ Len(inp.text) = 4
    /\ inp.text[1] \in WhitespaceChars
    /\ inp.text[3] \in WhitespaceChars
    /\ Len(outp.lines) = 2
    /\ NonWhitespace(inp.text) # <<>>

(* the lines of the result as the sequence of its tokens                   *)
RECURSIVE TokensOfLines(_)
TokensOfLines(lines) ==
    IF lines = <<>> THEN <<>>
    ELSE TokensOf(lines[1]) \o TokensOfLines(Tail(lines))

IsWide(token) == TextWidth(token, inp.font) > inp.max_width

(* C19: a character (per-character mode) or a word (per-word mode) that is *)
(* wider than max_width by itself is a line of its own: the lines are made *)
(* of the tokens of the input, whole and in order, and a line that holds a *)
(* token wider than max_width holds nothing else.                          *)
C19_WideTokenAlone ==
    Wrapped =>
        /\ TokensOfLines(outp.lines) = TokensOf(inp.text)
        /\ \A k \in 1..Len(outp.lines) :
              (\E t \in 1..Len(TokensOf(outp.lines[k])) :
                  IsWide(TokensOf(outp.lines[k])[t]))
                  => outp.lines[k] = TokensOf(outp.lines[k])[1]

(* a two-letter word wider than max_width followed by a word that fits     *)
C19_Witness ==
    /\ Wrapped
    /\ ~ContainsChinese(inp.text)
    /\ Len(outp.lines) = 2
    /\ Len(outp.lines[1]) = 2
    /\ IsWide(outp.lines[1])
    /\ ~IsWide(outp.lines[2])
    /\ LineWidth(outp.lines[2]) > 0

BothResolved ==
    /\ Yielded
    /\ req.handler = "command_detail"
    /\ req.plugin.tag = "found"
    /\ req.command.tag = "found"

(* the sections of the detail page of a command of the model, which has a  *)
(* description and no usage, parameters or examples                        *)
SectionsOf(command) ==
    <<"title", "byline">> \o (IF command.desc THEN <<"description">> ELSE <<>>)

(* C20: a command-detail request whose plugin and command both resolve     *)
(* sends an image of the command made of the sections title, byline,       *)
(* description, usage, parameters, examples, in that order, the absent     *)
(* ones left out.                                                          *)
C20_CommandDetailSections ==
    BothResolved =>
        \E image \in ImagesOf(req.out) :
           /\ image.kind = "command_detail"
           /\ image.header = SectionsOf(ResolvedCommand)

(***************************************************************************)
(* The resolver called again and again on one input while requests of      *)
(* others fill the cache in between.  req remembers the first result of    *)
(* each function, outp is the last call.                                   *)
(***************************************************************************)
AgainRows ==
    { [desc |-> FALSE, ns |-> 0,   ps |-> 0,  ds |-> 0],
      [desc |-> FALSE, ns |-> 100, ps |-> 0,  ds |-> 0],
      [desc |-> TRUE,  ns |-> 0,   ps |-> 61, ds |-> 86] }

AgainLists ==
    UNION { [1..n -> [name : Names, row : AgainRows, hidden : {FALSE}]] :
               n \in 0..MaxCand }

InitAgain ==
    /\ cfg \in {Config(TRUE, TRUE, py) : py \in BOOLEAN}
    /\ cache = {}
    /\ now = 0
    /\ req = [pc |-> "idle", first |-> {}]
    /\ \E query \in Queries, profs \in AgainLists :
          /\ LibraryScores(query, CandsOf(profs), ScoresOf(profs))
          /\ inp = [query |-> query, cands |-> CandsOf(profs),
                    sc |-> ScoresOf(profs), show_hidden |-> FALSE]
    /\ outp = [op |-> "none"]

(* a call: what a function returns while the cache is still empty is kept  *)
(* as its first result; the call leaves the candidate list and the cache   *)
(* alone.                                                                  *)
Called(op, result, list) ==
    /\ outp' = [op |-> op, result |-> result, list |-> list,
                cached |-> Cardinality(cache)]
    /\ req' = [req EXCEPT !.first =
                   IF cache # {} \/ \E f \in req.first : f.op = op THEN @
                   ELSE @ \cup {[op |-> op, result |-> result, list |-> list]}]
    /\ UNCHANGED <<cfg, cache, now, inp>>

AgainGetPluginByQuery ==
    Called("get_plugin_by_query",
           GetByQuery("plugin", inp.query, inp.cands, inp.sc,
                      PinyinOn(cfg, inp.query), cfg.fuzzy_threshold),
           <<>>)

AgainGetCommandByQuery ==
    Called("get_command_by_query",
           GetByQuery("command", inp.query, inp.cands, inp.sc, FALSE,
                      cfg.fuzzy_threshold),
           <<>>)

AgainFuzzySearchPlugins ==
    Called("fuzzy_search_plugins", NotFound,
           FuzzySearch("plugin", inp.query, inp.cands, inp.sc,
                       PinyinOn(cfg, inp.query), cfg.fuzzy_threshold))

AgainFuzzySearchCommands ==
    Called("fuzzy_search_commands", NotFound,
           FuzzySearch("command", inp.query, inp.cands, inp.sc, FALSE,
                       cfg.fuzzy_threshold))

(* another request stores the image of its page                            *)
AgainCacheImage ==
    /\ \E key \in CacheKeys :
          cache' = CacheImage(cache, key, RenderMainPage(HelpPage(<<PlugA>>, FALSE, "main"), FALSE).image, now)
    /\ UNCHANGED <<cfg, now, req, inp, outp>>

NextAgain ==
    \/ AgainGetPluginByQuery
    \/ AgainGetCommandByQuery
    \/ AgainFuzzySearchPlugins
    \/ AgainFuzzySearchCommands
    \/ AgainCacheImage

SpecAgain == InitAgain /\ [][NextAgain]_vars

StarNames == {<<"a">>, <<"B">>}

Readings == {"ok", "unreadable", "name_raises", "no_name"}

Stars == [name : StarNames, reading : Readings, excluded : BOOLEAN, hidden : BOOLEAN]

StarLists == UNION {[1..n -> Stars] : n \in 0..MaxCand}

(* collect_plugin_info: None when a field raises, a PluginInfo otherwise   *)
CollectPluginInfo(star) ==
    IF star.reading = "unreadable" THEN [tag |-> "none"]
    ELSE [tag |-> "info", name |-> star.name, hidden |-> star.hidden,
          named |-> star.reading # "no_name"]

(* the body of the loop for one StarMetadata: the plugin it appends, if    *)
(* any, and whether the exception leaves the loop (reading name raises     *)
(* again in the handler of the inner try)                                  *)
LoopBody(star, show_hidden) ==
    IF star.reading = "name_raises" THEN [escapes |-> TRUE, add |-> <<>>]
    ELSE IF star.excluded THEN [escapes |-> FALSE, add |-> <<>>]
    ELSE IF /\ CollectPluginInfo(star).tag = "info"
            /\ (show_hidden \/ ~CollectPluginInfo(star).hidden)
         THEN [escapes |-> FALSE, add |-> <<CollectPluginInfo(star)>>]
    ELSE [escapes |-> FALSE, add |-> <<>>]

RECURSIVE Appended(_, _)
Appended(all_stars, show_hidden) ==
    IF all_stars = <<>> THEN <<>>
    ELSE LoopBody(all_stars[1], show_hidden).add
            \o Appended(Tail(all_stars), show_hidden)

(* collect_plugins: [] when an exception leaves the loop or the sort key   *)
(* p.name.lower() raises on a name that is None                            *)
CollectAllStars(all_stars, show_hidden) ==
    IF \E i \in 1..Len(all_stars) : LoopBody(all_stars[i], show_hidden).escapes
    THEN <<>>
    ELSE IF \E i \in 1..Len(Appended(all_stars, show_hidden)) :
               ~Appended(all_stars, show_hidden)[i].named
    THEN <<>>
    ELSE SortByName(Appended(all_stars, show_hidden))

(* A handler of the registry: whether its module is the plugin's, and its  *)
(* event filter (a CommandFilter, a CommandGroupFilter or another one).    *)
CommandNames == {<<"a">>, <<"A">>, <<"b">>}

Handlers == [is_match : BOOLEAN, filter : {"command", "group", "other"}, name : CommandNames]

Registries == UNION {[1..n -> Handlers] : n \in 0..MaxCand}

RECURSIVE FromRegistry(_)
FromRegistry(registry) ==
    IF registry = <<>> THEN <<>>
    ELSE (IF registry[1].is_match /\ registry[1].filter \in {"command", "group"}
          THEN <<[name |-> registry[1].name, path |-> "registry"]>>
          ELSE <<>>)
         \o FromRegistry(Tail(registry))

(* dir() lists the names in the order of str                               *)
RECURSIVE Dir(_)
Dir(names) ==
    IF names = {} THEN <<>>
    ELSE LET least == CHOOSE m \in names : \A o \in names \ {m} : StrLess(m, o)
         IN  <<least>> \o Dir(names \ {least})

CollectCommandsFromMethods(methods) ==
    [i \in 1..Len(Dir(methods)) |-> [name |-> Dir(methods)[i], path |-> "methods"]]

CollectCommandsFromRegistry(registry, methods) ==
    SortByName(IF FromRegistry(registry) # <<>> THEN FromRegistry(registry)
               ELSE CollectCommandsFromMethods(methods))

InitCollect ==
    /\ cfg = Config(TRUE, TRUE, TRUE)
    /\ cache = {}
    /\ now = 0
    /\ req = NoRequest
    /\ \/ \E all_stars \in StarLists, show_hidden \in BOOLEAN :
             inp = [op |-> "collect_plugins", all_stars |-> all_stars,
                    show_hidden |-> show_hidden]
       \/ \E registry \in Registries, methods \in SUBSET CommandNames :
             inp = [op |-> "collect_commands", registry |-> registry,
                    methods |-> methods]
    /\ outp = [op |-> "none"]

CallCollectPlugins ==
    /\ inp.op = "collect_plugins"
    /\ outp.op = "none"
    /\ outp' = [op |-> "collect_plugins",
                plugins |-> CollectAllStars(inp.all_stars, inp.show_hidden)]
    /\ UNCHANGED <<cfg, cache, now, req, inp>>

CallCollectCommands ==
    /\ inp.op = "collect_commands"
    /\ outp.op = "none"
    /\ outp' = [op |-> "collect_commands",
                commands |-> CollectCommandsFromRegistry(inp.registry, inp.methods)]
    /\ UNCHANGED <<cfg, cache, now, req, inp>>

NextCollect ==
    \/ CallCollectPlugins
    \/ CallCollectCommands

SpecCollect == InitCollect /\ [][NextCollect]_vars

(* C22: the commands collected for a plugin have pairwise distinct names   *)
(* when case is ignored, on the registry path and on the method path.      *)
C22_DistinctCommandNames ==
    outp.op = "collect_commands" =>
        \A i, j \in 1..Len(outp.commands) :
            i # j => Lower(outp.commands[i].name) # Lower(outp.commands[j].name)

(* C23: every StarMetadata that is read without failure, is not excluded   *)
(* and is visible is in the list collect_plugins returns, whatever the     *)
(* other ones do, and the list is in the order of the lowered names.       *)
C23_FailureSkipsOnlyThatPlugin ==
    outp.op = "collect_plugins" =>
        /\ \A i \in 1..Len(inp.all_stars) :
              LET star == inp.all_stars[i]
              IN  /\ star.reading = "ok"
                  /\ ~star.excluded
                  /\ (inp.show_hidden \/ ~star.hidden)
                  => \E k \in 1..Len(outp.plugins) :
                        /\ outp.plugins[k].name = star.name
                        /\ outp.plugins[k].hidden = star.hidden
        /\ \A k \in 1..(Len(outp.plugins) - 1) :
              ~StrLess(Lower(outp.plugins[k + 1].name), Lower(outp.plugins[k].name))

(***************************************************************************)
(* RenderConfig: the dataclass and its __post_init__.                      *)
(***************************************************************************)
MaxFont == 16

(* int(x) of the float x = n * num / den, exact for the sizes in use:      *)
(* the fraction is dropped, towards zero                                   *)
IntOfProduct_floor(n, num, den) == (n * num) \div den

IntOfProduct(n, num, den) ==
    IF n * num >= 0 THEN (n * num) \div den ELSE -((-(n * num)) \div den)

PostInit(config) ==
    [config EXCEPT !.title_font_size = IntOfProduct(config.font_size, 3, 2),
                   !.subtitle_font_size = IntOfProduct(config.font_size, 7, 8),
                   !.command_font_size = IntOfProduct(config.font_size, 7, 8)]

RenderConfig(font_size, title_font_size, subtitle_font_size, command_font_size) ==
    PostInit([width |-> ImageWidth, font_size |-> font_size, padding |-> Padding,
              card_spacing |-> CardSpacing, title_font_size |-> title_font_size,
              subtitle_font_size |-> subtitle_font_size,
              command_font_size |-> command_font_size])

(* the values a caller passes for a font size field: the defaults of the   *)
(* dataclass or another size                                               *)
TitleSizes == {24, 0}

SmallSizes == {14, 0}

InitConfig ==
    /\ cfg = Config(TRUE, TRUE, TRUE)
    /\ cache = {}
    /\ now = 0
    /\ req = NoRequest
    /\ \E font_size \in (-MaxFont)..MaxFont, title \in TitleSizes,
          subtitle \in SmallSizes, command \in SmallSizes :
          inp = [font_size |-> font_size, title_font_size |-> title,
                 subtitle_font_size |-> subtitle, command_font_size |-> command]
    /\ outp = [op |-> "none"]

ConstructRenderConfig ==
    /\ outp.op = "none"
    /\ outp' = [op |-> "RenderConfig",
                config |-> RenderConfig(inp.font_size, inp.title_font_size,
                                        inp.subtitle_font_size, inp.command_font_size)]
    /\ UNCHANGED <<cfg, cache, now, req, inp>>

NextConfig == ConstructRenderConfig

SpecConfig == InitConfig /\ [][NextConfig]_vars

(* C24 as stated: the three sizes of a constructed RenderConfig are the    *)
(* floors of 1.5 and 0.875 times font_size, for every font_size.           *)
C24_FloorSizes ==
    outp.op = "RenderConfig" =>
        /\ 2 * outp.config.title_font_size <= 3 * inp.font_size
        /\ 3 * inp.font_size < 2 * (outp.config.title_font_size + 1)
        /\ 8 * outp.config.subtitle_font_size <= 7 * inp.font_size
        /\ 7 * inp.font_size < 8 * (outp.config.subtitle_font_size + 1)
        /\ outp.config.command_font_size = outp.config.subtitle_font_size

(* C24 amended: the three sizes are 1.5 and 0.875 times font_size with the *)
(* fraction dropped towards zero, whatever was passed for them; that is    *)
(* the floor exactly when font_size is not negative or the product is      *)
(* whole.                                                                  *)
C24_TruncatedSizes ==
    outp.op = "RenderConfig" =>
        LET t == outp.config.title_font_size
            s == outp.config.subtitle_font_size
            n == inp.font_size
        IN  /\ outp.config.command_font_size = s
            /\ n >= 0 => /\ 2 * t <= 3 * n /\ 3 * n < 2 * (t + 1)
                         /\ 8 * s <= 7 * n /\ 7 * n < 8 * (s + 1)
            /\ n < 0  => /\ 2 * t >= 3 * n /\ 3 * n > 2 * (t - 1)
                         /\ 8 * s >= 7 * n /\ 7 * n > 8 * (s - 1)

(* font_size 16 with other sizes passed: title 24, subtitle and command 14 *)
C24_Witness ==
    /\ outp.op = "RenderConfig"
    /\ inp.font_size = 16
    /\ inp.title_font_size = 0
    /\ inp.subtitle_font_size = 0
    /\ inp.command_font_size = 0
    /\ outp.config.title_font_size = 24
    /\ outp.config.subtitle_font_size = 14
    /\ outp.config.command_font_size = 14

(* C25: a help request with an empty or whitespace-only query, where       *)
(* nothing is resolved and discovery and the main-page render succeed,     *)
(* delivers exactly one message, the image of the main page, and no text.  *)
C25_HelpDeliversOneImage ==
    (Yielded /\ req.handler = "help" /\ req.plugin_query = <<>>) =>
        /\ Len(req.out) = 1
        /\ req.out[1].type = "image"
        /\ req.out[1].image.kind = "main"

(***************************************************************************)
(* Several main-page requests in flight on the one cooperative scheduler.  *)
(* req is the position of each request, inp the request that holds the     *)
(* thread (0 when every request is suspended or not started).  A request   *)
(* runs from one suspension point to the next without giving the thread    *)
(* away.                                                                   *)
(***************************************************************************)
MaxReq == 2

Requests == 1..MaxReq

(* Positions of show_main_page: "idle", not called; "started", before      *)
(* get_cached_image; "missed", at 'await self.renderer.render_main_page',  *)
(* between the miss and cache_image; "yielded", at a yield.  The handler   *)
(* gives the thread away only at a yield: render_main_page and the         *)
(* coroutines it awaits never await anything that suspends.                *)
SuspendsAt_render(pc) == pc \in {"idle", "missed", "yielded"}

SuspendsAt(pc) == pc \in {"idle", "yielded"}

MayRun(r) == inp.running = r \/ (inp.running = 0 /\ SuspendsAt(req[r].pc))

InstalledNow == <<PlugB, PlugA>>

PluginsFor(user) == CollectPlugins(InstalledNow, CanSeeHidden(cfg, user))

KeyFor(user) ==
    GetCacheKey(MainKeyArgs(Len(PluginsFor(user)), CanSeeHidden(cfg, user), cfg.theme))

HasFresh(c, key, t) == HasKey(c, key) /\ ~Expired(Entry(c, key).timestamp, t)

IdleRequest ==
    [pc |-> "idle", user |-> "user", result |-> "none", interleaved |-> FALSE, redundant |-> FALSE]

(* request r takes a step to position pc: it keeps the thread unless it    *)
(* suspends there, and every other request that is between its miss and    *)
(* its insert has had a step of another request in between                 *)
Stepped(r, pc, user, result, redundant) ==
    /\ req' = [o \in Requests |->
                 IF o = r
                 THEN [pc |-> pc, user |-> user, result |-> result,
                       interleaved |-> req[r].interleaved, redundant |-> redundant]
                 ELSE [req[o] EXCEPT !.interleaved = @ \/ req[o].pc = "missed"]]
    /\ inp' = [running |-> IF SuspendsAt(pc) THEN 0 ELSE r]

InitSched ==
    /\ cfg \in {Config(TRUE, c, TRUE) : c \in BOOLEAN}
    /\ cache = {}
    /\ now = 0
    /\ req = [r \in Requests |-> IdleRequest]
    /\ inp = [running |-> 0]
    /\ outp = NoOutput

(* the host calls show_main_page for a request of user                     *)
SchedBegin(r) ==
    /\ req[r].pc = "idle"
    /\ MayRun(r)
    /\ \E user \in Users : Stepped(r, "started", user, "none", FALSE)
    /\ UNCHANGED <<cfg, cache, now, outp>>

(* get_cached_image: a hit is sent at once, a miss goes on to the render   *)
SchedLookup(r) ==
    /\ req[r].pc = "started"
    /\ MayRun(r)
    /\ LET cached == GetCachedImage(cache, KeyFor(req[r].user), now)
       IN  /\ cache' = cached.cache
           /\ IF cached.hit
              THEN Stepped(r, "yielded", req[r].user, "hit", FALSE)
              ELSE Stepped(r, "missed", req[r].user, "none", FALSE)
    /\ UNCHANGED <<cfg, now, outp>>

(* render_main_page, then cache_image and the yield of the image, or the   *)
(* yield of the error text when the render raised                          *)
SchedRenderAndStore(r) ==
    /\ req[r].pc = "missed"
    /\ MayRun(r)
    /\ \E fails \in BOOLEAN :
          LET user == req[r].user
              render == RenderMainPage(HelpPage(PluginsFor(user), CanSeeHidden(cfg, user), "main"), fails)
          IN  /\ cache' = IF render.raised THEN cache
                          ELSE CacheImage(cache, KeyFor(user), render.image, now)
              /\ Stepped(r, "yielded", user,
                         IF render.raised THEN "failed" ELSE "rendered",
                         HasFresh(cache, KeyFor(user), now))
    /\ UNCHANGED <<cfg, now, outp>>

(* the message is delivered and the handler returns                        *)
SchedResume(r) ==
    /\ req[r].pc = "yielded"
    /\ MayRun(r)
    /\ req' = [req EXCEPT ![r] = IdleRequest]
    /\ UNCHANGED <<cfg, cache, now, inp, outp>>

SchedTick ==
    /\ now < MaxTime
    /\ now' = now + 1
    /\ UNCHANGED <<cfg, cache, req, inp, outp>>

NextSched ==
    \/ \E r \in Requests : SchedBegin(r)
    \/ \E r \in Requests : SchedLookup(r)
    \/ \E r \in Requests : SchedRenderAndStore(r)
    \/ \E r \in Requests : SchedResume(r)
    \/ SchedTick

SpecSched == InitSched /\ [][NextSched]_vars

(* C26: no step of another request runs between the cache miss of a        *)
(* request and its insert, so at most one request is between the two at    *)
(* any time, and no request renders while the cache holds a fresh entry    *)
(* for its key.                                                            *)
C26_MissToInsertIsAtomic ==
    /\ \A r \in Requests : ~req[r].interleaved /\ ~req[r].redundant
    /\ \A r \in Requests : req[r].pc = "missed" => inp.running = r
    /\ \A r, o \in Requests :
          (r # o /\ req[r].pc = "missed") => req[o].pc \in {"idle", "yielded"}

(* two requests of one user in flight: the first missed, rendered and      *)
(* stored, the second was answered from the cache                          *)
C26_Witness ==
    \E r, o \in Requests :
        /\ r # o
        /\ req[r].user = req[o].user
        /\ req[r].pc = "yielded" /\ req[r].result = "rendered"
        /\ req[o].pc = "yielded" /\ req[o].result = "hit"
        /\ HasFresh(cache, KeyFor(req[r].user), now)

(***************************************************************************)
(* Requests of admins and of other users while the installation changes    *)
(* between them: plugins are installed and removed, and a plugin that is   *)
(* deactivated becomes hidden (collect_plugin_info).  inp is the           *)
(* installation the last request met.                                      *)
(***************************************************************************)
PlugAOff == Plugin(<<"a">>, TRUE, PlugA.commands)

HiddenSets == InstalledSets \cup {<<PlugN, PlugA>>, <<PlugN, PlugAOff>>}

HiddenMainPage ==
    /\ req.pc = "idle"
    /\ \E user \in Users, stars \in HiddenSets, fails \in BOOLEAN :
          LET show_hidden == CanSeeHidden(cfg, user)
              plugins == CollectPlugins(stars, show_hidden)
              ran == RunMainPage(plugins, show_hidden, fails)
          IN  /\ cache' = ran.cache
              /\ req' = Request("main", user, show_hidden, plugins,
                                <<>>, <<>>, <<>>, <<>>, ran)
              /\ inp' = [stars |-> stars]
    /\ UNCHANGED <<cfg, now, outp>>

HiddenPluginDetail ==
    /\ req.pc = "idle"
    /\ \E user \in Users, stars \in HiddenSets,
          plugin_query \in PluginQueries, fails \in BOOLEAN :
          LET show_hidden == CanSeeHidden(cfg, user)
              plugins == CollectPlugins(stars, show_hidden)
          IN  \E sc \in ScoreChoices(plugin_query, plugins) :
                 LET ran == RunPluginDetail(plugin_query, plugins,
                                            show_hidden, sc, fails)
                 IN  /\ cache' = ran.cache
                     /\ req' = Request("plugin_detail", user, show_hidden,
                                       plugins, plugin_query, <<>>, sc, <<>>,
                                       ran)
                     /\ inp' = [stars |-> stars]
    /\ UNCHANGED <<cfg, now, outp>>

NextHidden ==
    \/ HiddenMainPage
    \/ HiddenPluginDetail
    \/ Resume

SpecHidden == Init /\ [][NextHidden]_vars

(* the image has a card of a plugin that is hidden in the installation     *)
ShowsHidden(image, stars) ==
    \E k \in 1..Len(image.plugins), i \in 1..Len(stars) :
        image.plugins[k].name = stars[i].name /\ stars[i].hidden

(* C27: a requester who cannot see hidden content has no hidden plugin in  *)
(* the candidate list, resolves to no hidden plugin and receives no image  *)
(* showing a plugin that is hidden, whatever requests of admins and of     *)
(* others came before and whatever they left in the cache.                 *)
C27_NoHiddenForNonAdmin ==
    (Yielded /\ ~CanSeeHidden(cfg, req.user)) =>
        /\ \A k \in 1..Len(req.plugins) : ~req.plugins[k].hidden
        /\ req.plugin.tag = "found" => ~ResolvedPlugin.hidden
        /\ \A image \in ImagesOf(req.out) : ~ShowsHidden(image, inp.stars)

(* the scores of a query that is similar to no candidate                   *)
NoScores(cands) == [i \in 1..Len(cands) |-> [ns |-> 0, ps |-> 0, ds |-> 0]]

(* the name of the candidate the query made of the number resolves to      *)
ResolvesTo(kind, number, cands, name) ==
    LET found == GetByQuery(kind, StrInt(number), cands, NoScores(cands), FALSE, cfg.fuzzy_threshold)
    IN  found.tag = "found" /\ cands[found.idx].name = name

(* C28: the number on a plugin card of a main page a request delivers,     *)
(* given as the plugin query, resolves in the list of that request to the  *)
(* plugin of the card, and the number on a command card of a detail page   *)
(* resolves in the commands of that plugin to the command of the card.     *)
C28_OrdinalResolvesToItsCard ==
    Yielded =>
        \A image \in ImagesOf(req.out) :
            /\ \A k \in 1..Len(image.plugins) :
                  ResolvesTo("plugin", image.plugins[k].index, req.plugins,
                             image.plugins[k].name)
            /\ \A k \in 1..Len(image.cards) :
                  ResolvesTo("command", image.cards[k].index,
                             ResolvedPlugin.commands, image.cards[k].name)

(***************************************************************************)
(* The header block of render_plugin_detail: the title at y = padding, the *)
(* subtitle and the wrapped lines of the description below it.  The        *)
(* heights are those Pillow reports for the texts in the two fonts.        *)
(***************************************************************************)
MaxLines == 8

TitleHeights == {18, 28}

InfoHeights == {10, 17}

(* the bottom y of the last text of the header; subtitle_height 0 stands   *)
(* for a plugin without subtitle, lines 0 for one without description      *)
HeaderBottom(title_height, subtitle_height, line_height, lines) ==
    LET title_y == Padding
        info_y == title_y + title_height + 10
        desc_y == IF subtitle_height > 0 THEN info_y + subtitle_height + 5 ELSE info_y
    IN  IF lines > 0 THEN desc_y + (lines - 1) * (line_height + 2) + line_height
        ELSE IF subtitle_height > 0 THEN info_y + subtitle_height
        ELSE title_y + title_height

InitHeader ==
    /\ cfg = Config(TRUE, TRUE, TRUE)
    /\ cache = {}
    /\ now = 0
    /\ req = NoRequest
    /\ \E title_height \in TitleHeights, subtitle_height \in InfoHeights \cup {0},
          line_height \in InfoHeights, lines \in 0..MaxLines :
          inp = [title_height |-> title_height, subtitle_height |-> subtitle_height,
                 line_height |-> line_height, lines |-> lines]
    /\ outp = [op |-> "none"]

(* render_plugin_detail of a plugin without commands: raised is what the   *)
(* call does, bottom where the header block ends once it is drawn          *)
CallRenderHeader ==
    /\ outp.op = "none"
    /\ outp' = [op |-> "render_plugin_detail",
                raised |-> GetVisibleCommands(<<>>, <<FALSE, FALSE>>).raised,
                bottom |-> HeaderBottom(inp.title_height, inp.subtitle_height,
                                        inp.line_height, inp.lines)]
    /\ UNCHANGED <<cfg, cache, now, req, inp>>

NextHeader == CallRenderHeader

SpecHeader == InitHeader /\ [][NextHeader]_vars

(* C29: the plugin detail draws its header, and the last line of the       *)
(* header ends at or above the top of the command grid, header_height +    *)
(* padding, for every number of description lines.                         *)
C29_HeaderAboveGrid ==
    outp.op = "render_plugin_detail" =>
        /\ ~outp.raised
        /\ outp.bottom <= DetailHeaderHeight + Padding

(***************************************************************************)
(* picmenu_clear_cache and terminate on a cache that requests have filled. *)
(* outp is the last command: who called it, the cache it met and the       *)
(* messages it yielded.                                                    *)
(***************************************************************************)
InitClear ==
    /\ cfg = Config(TRUE, TRUE, TRUE)
    /\ cache = {}
    /\ now = 0
    /\ req = NoRequest
    /\ inp = NoInput
    /\ outp = [op |-> "none"]

(* a page handler stores an image                                          *)
ClearCacheImage ==
    /\ req.pc = "idle"
    /\ \E key \in CacheKeys, image \in CacheImages :
          cache' = CacheImage(cache, key, image, now)
    /\ UNCHANGED <<cfg, now, req, inp, outp>>

ClearCacheCommand ==
    /\ req.pc = "idle"
    /\ \E user \in Users :
          IF ~IsAdmin(user)
          THEN /\ outp' = [op |-> "picmenu_clear_cache", user |-> user,
                           cache_before |-> cache,
                           out |-> <<TextMsg("permission_denied", <<>>)>>]
               /\ cache' = cache
          ELSE /\ outp' = [op |-> "picmenu_clear_cache", user |-> user,
                           cache_before |-> cache,
                           out |-> <<TextMsg("cleared", <<StrInt(Cardinality(cache))>>)>>]
               /\ cache' = {}
    /\ UNCHANGED <<cfg, now, req, inp>>

Terminate ==
    /\ req.pc = "idle"
    /\ cache' = {}
    /\ req' = [pc |-> "terminated"]
    /\ outp' = [op |-> "terminate", user |-> "admin", cache_before |-> cache, out |-> <<>>]
    /\ UNCHANGED <<cfg, now, inp>>

ClearTick ==
    /\ req.pc = "idle"
    /\ now < MaxTime
    /\ now' = now + 1
    /\ UNCHANGED <<cfg, cache, req, inp, outp>>

NextClear ==
    \/ ClearCacheImage
    \/ ClearCacheCommand
    \/ Terminate
    \/ ClearTick

SpecClear == InitClear /\ [][NextClear]_vars

(* C30: picmenu_clear_cache of a user who is not an admin changes nothing  *)
(* in the cache and yields the permission text only; of an admin it        *)
(* empties the cache and yields the number of entries it held; terminate   *)
(* empties the cache.                                                      *)
C30_ClearCache ==
    [][ /\ (outp'.op = "picmenu_clear_cache" /\ outp' # outp /\ outp'.user \notin AdminUsers) =>
              /\ cache' = cache
              /\ outp'.out = <<TextMsg("permission_denied", <<>>)>>
        /\ (outp'.op = "picmenu_clear_cache" /\ outp' # outp /\ outp'.user \in AdminUsers) =>
              /\ cache' = {}
              /\ outp'.out = <<TextMsg("cleared", <<StrInt(Cardinality(cache))>>)>>
        /\ (outp'.op = "terminate" /\ outp' # outp) => cache' = {} ]_vars

(* a user who is not an admin has called picmenu_clear_cache on a cache of *)
(* two entries, which are still there                                      *)
C30_Witness ==
    /\ outp.op = "picmenu_clear_cache"
    /\ outp.user \notin AdminUsers
    /\ Cardinality(outp.cache_before) = 2
    /\ cache = outp.cache_before
    /\ outp.out = <<TextMsg("permission_denied", <<>>)>>

====
